---- MODULE Spec2Model ----
(***************************************************************************)
(* DCGANAgent (src/agents/dcgan.py): the training orchestration loop, the *)
(* checkpoint load/save state machine and the epoch/iteration bookkeeping. *)
(*                                                                         *)
(* One control thread (the process that owns the agent) moves through the  *)
(* program positions held in pc.  The caller's protocol is                 *)
(*   agent = DCGANAgent(config); agent.run(); agent.finalize()             *)
(* and a later process launch constructs a new agent from what is on disk. *)
(*                                                                         *)
(* Network parameters and optimizer states are opaque blobs; each is       *)
(* modelled by the number of optimizer steps applied to it since a fresh   *)
(* initialisation.  A gradient buffer is the set of backward passes that   *)
(* have accumulated into it since its last zero_grad().                    *)
(*                                                                         *)
(* Not modelled: the CUDA branch (lines 66-73, 150-153) and the seeding    *)
(* (lines 61-64).  Line 139, self.model.train(), names an attribute that   *)
(* only the CUDA branch assigns; it is read as the mode switch of the two  *)
(* networks, which changes no state of the loop.                           *)
(***************************************************************************)
EXTENDS Integers, Sequences, FiniteSets, TLC

\* ---------------------------------------------------------------- bounds
\* largest configured config.max_epoch
MaxEpochCfg == 2
\* largest configured dataloader.num_iterations (batches per epoch)
MaxIterCfg == 2
\* number of process launches (construct / run / finalize) in a behaviour
MaxLaunches == 3
\* number of distinct values a sampled noise tensor takes
NoiseVals == 2

\* ------------------------------------------------------ program constants
real_label == 1
fake_label == 0
\* telemetry is emitted when curr_it % LogInterval = 0
LogInterval == 100
\* records sent to the summary writer per emission: 2 scalars, 2 images
NumEmissions == 4
\* keys of a checkpoint dict, in the order load_checkpoint reads them:
\* epoch, iteration, G_state_dict, G_optimizer, D_state_dict, D_optimizer
NumKeys == 6

VARIABLES
  \* configuration (fixed over a behaviour)
  max_epoch, num_iterations,
  \* durable storage: checkpoint_dir + "checkpoint.pth.tar", "model_best.pth.tar"
  ckpt_file, best_file,
  \* the control thread
  pc, launches,
  \* fields of the agent
  current_epoch, current_iteration, netG, optimG, netD, optimD,
  gradD, gradG,
  \* locals of train / train_one_epoch / save_checkpoint
  epoch, curr_it, y, meter_count, saveRet, is_best, emit_idx,
  \* collaborators: summary writer and data loader
  records, writer_closed, loader_finalized,
  \* history of the current run() call
  start_epoch, trained, run_saves, epochs_done, iter_at_epoch, iter_at_run,
  netD_at_run, netG_at_run, loss_records, run_result, cancel_pc, cancel_it,
  \* history of the current process
  load_outcome, loaded_from, proc_steps, emit_failed, epoch_ckpt,
  \* noise tensors, and the generated image the summary writer received last
  fixed_noise, fake_noise, gen_image,
  \* history of the current training step
  events, targets, d_consumed,
  \* history of the run, of the process and of the checkpoint file
  emit_steps, fin_saves, loaded_partial, ckpt_partial

cfg == <<max_epoch, num_iterations>>
disk == <<ckpt_file, best_file>>
agent == <<current_epoch, current_iteration, netG, optimG, netD, optimD>>
grads == <<gradD, gradG>>
locals == <<epoch, curr_it, y, meter_count, saveRet, is_best, emit_idx>>
sinks == <<records, writer_closed, loader_finalized>>
hist_run == <<start_epoch, trained, run_saves, epochs_done, iter_at_epoch,
              iter_at_run, netD_at_run, netG_at_run, loss_records, run_result,
              cancel_pc, cancel_it, emit_steps>>
hist_proc == <<load_outcome, loaded_from, proc_steps, emit_failed, epoch_ckpt,
               fin_saves, loaded_partial>>
noise == <<fixed_noise, fake_noise, gen_image>>
hist_step == <<events, targets, d_consumed>>
aux == <<noise, hist_step, ckpt_partial>>
vars == <<cfg, disk, pc, launches, agent, grads, locals, sinks, hist_run,
          hist_proc, aux>>

\* the values of a noise tensor drawn by torch.randn
Noise == 1..NoiseVals
\* the summary writer has received no generated image
NoImage == <<0, 0>>

\* ------------------------------------------------------------- file content
File(k) == [kind |-> k, keys |-> 0, epoch |-> 0, iteration |-> 0,
            G_state_dict |-> 0, G_optimizer |-> 0,
            D_state_dict |-> 0, D_optimizer |-> 0]
\* no file at the path: torch.load raises FileNotFoundError (an OSError)
NoFile == File("absent")
\* a file the process may write but not read: torch.load raises PermissionError
Unreadable == File("unreadable")
\* a file that is no checkpoint: torch.load raises an unpickling error
Corrupt == File("corrupt")
\* a file opened for writing whose content has not been written completely
Truncated == File("truncated")
\* a readable dict that holds only the first k keys
Incomplete(k) == [File("ckpt") EXCEPT !.keys = k, !.epoch = 1, !.iteration = 1]

IsComplete(f) == f.kind = "ckpt" /\ f.keys = NumKeys

\* what may be at the checkpoint path when the first process starts
InitialFiles == {NoFile, Unreadable, Corrupt, Incomplete(2)}

\* ------------------------------------------------------------ __init__, load
\* the counters and the freshly initialised networks and optimizers
FreshAgent == [outcome |-> "fresh", current_epoch |-> 0, current_iteration |-> 0,
               netG |-> 0, optimG |-> 0, netD |-> 0, optimD |-> 0]

\* faulty variant: a load that leaves the iteration counter at its initial value
LoadCheckpoint_KeepIteration(f, s) ==
  IF f.kind \in {"absent", "unreadable"} THEN [s EXCEPT !.outcome = "fresh"]
  ELSE IF f.kind # "ckpt" THEN [s EXCEPT !.outcome = "raised"]
  ELSE [outcome |-> IF f.keys = NumKeys THEN "loaded" ELSE "raised",
        current_epoch |-> IF f.keys >= 1 THEN f.epoch ELSE s.current_epoch,
        current_iteration |-> s.current_iteration,
        netG |-> IF f.keys >= 3 THEN f.G_state_dict ELSE s.netG,
        optimG |-> IF f.keys >= 4 THEN f.G_optimizer ELSE s.optimG,
        netD |-> IF f.keys >= 5 THEN f.D_state_dict ELSE s.netD,
        optimD |-> IF f.keys >= 6 THEN f.D_optimizer ELSE s.optimD]

\* load_checkpoint on file content f, the agent's fields being s.
\* torch.load raising an OSError is caught and the fields keep their values;
\* any other exception (unpickling a file that is no checkpoint, a KeyError
\* on a missing key) leaves the try block uncaught, after the assignments
\* that precede it.
LoadCheckpoint(f, s) ==
  IF f.kind \in {"absent", "unreadable"} THEN [s EXCEPT !.outcome = "fresh"]
  ELSE IF f.kind # "ckpt" THEN [s EXCEPT !.outcome = "raised"]
  ELSE [outcome |-> IF f.keys = NumKeys THEN "loaded" ELSE "raised",
        current_epoch |-> IF f.keys >= 1 THEN f.epoch ELSE s.current_epoch,
        current_iteration |-> IF f.keys >= 2 THEN f.iteration ELSE s.current_iteration,
        netG |-> IF f.keys >= 3 THEN f.G_state_dict ELSE s.netG,
        optimG |-> IF f.keys >= 4 THEN f.G_optimizer ELSE s.optimG,
        netD |-> IF f.keys >= 5 THEN f.D_state_dict ELSE s.netD,
        optimD |-> IF f.keys >= 6 THEN f.D_optimizer ELSE s.optimD]

\* DCGANAgent(config): the counters are zeroed, then the checkpoint is loaded;
\* an exception that load_checkpoint does not catch leaves the constructor
\* and ends the process.
Construct ==
  /\ pc = "boot"
  /\ LET r == LoadCheckpoint(ckpt_file, FreshAgent) IN
       /\ current_epoch' = r.current_epoch
       /\ current_iteration' = r.current_iteration
       /\ netG' = r.netG /\ optimG' = r.optimG
       /\ netD' = r.netD /\ optimD' = r.optimD
       /\ load_outcome' = r.outcome
       /\ pc' = IF r.outcome = "raised" THEN "crashed" ELSE "ready"
  /\ gradD' = {} /\ gradG' = {}
  /\ loaded_from' = ckpt_file
  /\ epoch_ckpt' = ckpt_file
  /\ proc_steps' = 0 /\ emit_failed' = FALSE
  /\ fin_saves' = 0 /\ loaded_partial' = ckpt_partial
  /\ records' = 0 /\ writer_closed' = 0 /\ loader_finalized' = 0
  /\ \E n \in Noise : fixed_noise' = n
  /\ gen_image' = NoImage
  /\ UNCHANGED <<cfg, disk, launches, locals, hist_run, fake_noise, hist_step,
                 ckpt_partial>>

\* ------------------------------------------------------------------ run, train
\* faulty variant: a range that skips the epoch the agent is at
RangeStart_Next == current_epoch + 1
\* the first value of range(self.current_epoch, self.config.max_epoch)
RangeStart == current_epoch

\* the range has a next value
RangeHasNext == epoch < max_epoch

\* run() is called: train() evaluates the range
Run ==
  /\ pc = "ready"
  /\ pc' = "train"
  /\ epoch' = RangeStart
  /\ start_epoch' = current_epoch
  /\ trained' = <<>>
  /\ run_saves' = 0 /\ epochs_done' = 0
  /\ iter_at_epoch' = current_iteration /\ iter_at_run' = current_iteration
  /\ netD_at_run' = netD /\ netG_at_run' = netG
  /\ loss_records' = 0 /\ run_result' = "running"
  /\ cancel_pc' = "none" /\ cancel_it' = 0 /\ emit_steps' = 0
  /\ UNCHANGED <<cfg, disk, launches, agent, grads, curr_it, y, meter_count,
                 saveRet, is_best, emit_idx, sinks, hist_proc, aux>>

\* AverageMeter(): an accumulator that has seen no observation
NewMeter == 0

\* faulty variant: the accumulators of the previous epoch are kept
MeterAtEpochStart_Kept == meter_count
\* epoch_lossG = AverageMeter(); epoch_lossD = AverageMeter(), at the head
\* of every train_one_epoch() call
MeterAtEpochStart == NewMeter

\* for epoch in range(...): self.current_epoch = epoch; train_one_epoch()
\* is entered: the progress bar and the two AverageMeters are created
TrainNextEpoch ==
  /\ pc = "train"
  /\ RangeHasNext
  /\ current_epoch' = epoch
  /\ trained' = Append(trained, epoch)
  /\ iter_at_epoch' = current_iteration
  /\ meter_count' = MeterAtEpochStart
  /\ curr_it' = 0
  /\ pc' = "loop"
  /\ UNCHANGED <<cfg, disk, launches, current_iteration, netG, optimG, netD,
                 optimD, grads, epoch, y, saveRet, is_best, emit_idx, sinks,
                 start_epoch, run_saves, epochs_done, iter_at_run, netD_at_run,
                 netG_at_run, loss_records, run_result, cancel_pc, cancel_it,
                 emit_steps, hist_proc, aux>>

\* the range is exhausted: train() and run() return
TrainReturn ==
  /\ pc = "train"
  /\ ~RangeHasNext
  /\ pc' = "done"
  /\ run_result' = "completed"
  /\ UNCHANGED <<cfg, disk, launches, agent, grads, locals, sinks, start_epoch,
                 trained, run_saves, epochs_done, iter_at_epoch, iter_at_run,
                 netD_at_run, netG_at_run, loss_records, cancel_pc, cancel_it,
                 emit_steps, hist_proc, aux>>

\* ------------------------------------------------------------ train_one_epoch
\* the positions inside one training step, and inside train_one_epoch
StepPcs == {"d_real", "d_fake", "d_step", "g_back", "g_step", "record", "inc",
            "emit"}
EpochPcs == StepPcs \cup {"loop"}

\* the variables no sub-step of a training step changes
step_frame == <<cfg, disk, launches, current_epoch, epoch, saveRet, is_best,
                writer_closed, loader_finalized, start_epoch, trained, run_saves,
                epochs_done, iter_at_epoch, iter_at_run, netD_at_run, netG_at_run,
                run_result, cancel_pc, cancel_it, load_outcome, loaded_from,
                emit_failed, epoch_ckpt, fin_saves, loaded_partial,
                ckpt_partial, fixed_noise>>

\* faulty variant: a loader that yields one batch too many
LoaderHasNext_OneMore == curr_it <= num_iterations
\* the loader yields another batch: a well-formed data source yields
\* num_iterations batches per epoch
LoaderHasNext == curr_it < num_iterations

\* self.current_iteration += 1
NextIteration == current_iteration + 1

\* for curr_it, x in enumerate(tqdm_batch): a batch is fetched, the label
\* buffer y is filled with real_label and fresh noise is sampled
FetchBatch ==
  /\ pc = "loop"
  /\ LoaderHasNext
  /\ y' = real_label
  /\ \E n \in Noise : fake_noise' = n
  /\ events' = <<>> /\ targets' = <<>>
  /\ proc_steps' = proc_steps + 1
  /\ pc' = "d_real"
  /\ UNCHANGED <<step_frame, current_iteration, netG, optimG, netD, optimD,
                 grads, curr_it, meter_count, emit_idx, records, loss_records,
                 emit_steps, gen_image, d_consumed>>

\* faulty variant: the real-loss backward pass without netD.zero_grad()
GradDAfterRealBackward_NoReset == gradD \cup {"real"}
\* netD.zero_grad(), then loss_D_real.backward(): the discriminator's
\* gradient buffer holds the real-loss gradient alone
GradDAfterRealBackward == {"real"}

\* netD.zero_grad(); loss_D_real = loss(netD(x), y); loss_D_real.backward()
DiscriminatorReal ==
  /\ pc = "d_real"
  /\ gradD' = GradDAfterRealBackward
  /\ targets' = Append(targets, y)
  /\ events' = Append(events, "real_backward")
  /\ pc' = "d_fake"
  /\ UNCHANGED <<step_frame, current_iteration, netG, optimG, netD, optimD,
                 gradG, curr_it, y, meter_count, emit_idx, records,
                 loss_records, proc_steps, emit_steps, fake_noise, gen_image,
                 d_consumed>>

\* faulty variant: the fake batch is handed to netD without detach()
GradGAfterFakeBackward_NoDetach == gradG \cup {"fake"}
\* loss_D_fake.backward() on netD(G_fake_out.detach()): the detached batch
\* carries no graph into the generator, whose gradient buffer is untouched
GradGAfterFakeBackward == gradG

\* faulty variant: the generator runs after the fake-loss backward pass
DiscriminatorFakeEvents_Swapped == <<"fake_backward", "gen_forward">>
\* the passes of lines 167-173 in program order
DiscriminatorFakeEvents == <<"gen_forward", "fake_backward">>

\* G_fake_out = netG(fake_noise); y.fill_(fake_label);
\* loss_D_fake = loss(netD(G_fake_out.detach()), y); loss_D_fake.backward()
DiscriminatorFake ==
  /\ pc = "d_fake"
  /\ y' = fake_label
  /\ gradD' = gradD \cup {"fake"}
  /\ gradG' = GradGAfterFakeBackward
  /\ targets' = Append(targets, y')
  /\ events' = events \o DiscriminatorFakeEvents
  /\ pc' = "d_step"
  /\ UNCHANGED <<step_frame, current_iteration, netG, optimG, netD, optimD,
                 curr_it, meter_count, emit_idx, records, loss_records,
                 proc_steps, emit_steps, fake_noise, gen_image, d_consumed>>

\* loss_D = loss_D_fake + loss_D_real; optimD.step(): the optimizer, built
\* on netD.parameters(), consumes the discriminator's gradient buffer
DiscriminatorStep ==
  /\ pc = "d_step"
  /\ netD' = netD + 1
  /\ optimD' = optimD + 1
  /\ d_consumed' = gradD
  /\ events' = Append(events, "d_step")
  /\ pc' = "g_back"
  /\ UNCHANGED <<step_frame, current_iteration, netG, optimG, grads, curr_it,
                 y, meter_count, emit_idx, records, loss_records, proc_steps,
                 emit_steps, fake_noise, gen_image, targets>>

\* faulty variant: the label buffer is used as the discriminator step left it
GeneratorLabel_Stale == y
\* y.fill_(self.real_label)
GeneratorLabel == real_label

\* netG.zero_grad(); y.fill_(real_label); loss_G = loss(netD(G_fake_out), y);
\* loss_G.backward(): the backward pass runs through the discriminator and
\* accumulates into its gradient buffer as well
GeneratorBackward ==
  /\ pc = "g_back"
  /\ y' = GeneratorLabel
  /\ gradG' = {"gen"}
  /\ gradD' = gradD \cup {"gen"}
  /\ targets' = Append(targets, y')
  /\ events' = Append(events, "gen_backward")
  /\ pc' = "g_step"
  /\ UNCHANGED <<step_frame, current_iteration, netG, optimG, netD, optimD,
                 curr_it, meter_count, emit_idx, records, loss_records,
                 proc_steps, emit_steps, fake_noise, gen_image, d_consumed>>

\* optimG.step(): the optimizer is built on netG.parameters()
GeneratorStep ==
  /\ pc = "g_step"
  /\ netG' = netG + 1
  /\ optimG' = optimG + 1
  /\ events' = Append(events, "g_step")
  /\ pc' = "record"
  /\ UNCHANGED <<step_frame, current_iteration, netD, optimD, grads, curr_it,
                 y, meter_count, emit_idx, records, loss_records, proc_steps,
                 emit_steps, fake_noise, gen_image, targets, d_consumed>>

\* AverageMeter.update(value): one more observation
MeterUpdate(c) == c + 1

\* epoch_lossD.update(loss_D); epoch_lossG.update(loss_G)
RecordLosses ==
  /\ pc = "record"
  /\ meter_count' = MeterUpdate(meter_count)
  /\ loss_records' = loss_records + 1
  /\ pc' = "inc"
  /\ UNCHANGED <<step_frame, current_iteration, netG, optimG, netD, optimD,
                 grads, curr_it, y, emit_idx, records, proc_steps, emit_steps,
                 fake_noise, gen_image, hist_step>>

\* self.current_iteration += 1, then the test curr_it % 100 == 0; when it
\* fails the loop takes its next index
IncrementIteration ==
  /\ pc = "inc"
  /\ current_iteration' = NextIteration
  /\ IF curr_it % LogInterval = 0
       THEN /\ pc' = "emit" /\ emit_idx' = 0 /\ curr_it' = curr_it
            /\ emit_steps' = emit_steps + 1
       ELSE /\ pc' = "loop" /\ emit_idx' = emit_idx /\ curr_it' = curr_it + 1
            /\ emit_steps' = emit_steps
  /\ UNCHANGED <<step_frame, netG, optimG, netD, optimD, grads, y,
                 meter_count, records, loss_records, proc_steps, fake_noise,
                 gen_image, hist_step>>

\* faulty variant: the sample is generated from the step's own noise
SampleNoise_PerStep == fake_noise
\* Gen_out = self.netG(self.fixed_noise)
SampleNoise == fixed_noise

\* one of add_scalar, add_scalar, add_image, add_image accepts its record,
\* the last being the image generated by netG from SampleNoise; after the
\* last one the loop takes its next index
EmitRecord ==
  /\ pc = "emit"
  /\ records' = records + 1
  /\ IF emit_idx + 1 = NumEmissions
       THEN /\ pc' = "loop" /\ emit_idx' = 0 /\ curr_it' = curr_it + 1
            /\ gen_image' = <<netG, SampleNoise>>
       ELSE /\ pc' = "emit" /\ emit_idx' = emit_idx + 1 /\ curr_it' = curr_it
            /\ gen_image' = gen_image
  /\ UNCHANGED <<step_frame, current_iteration, netG, optimG, netD, optimD,
                 grads, y, meter_count, loss_records, proc_steps, emit_steps,
                 fake_noise, hist_step>>

\* one of the four summary-writer calls raises: no handler of
\* train_one_epoch, train or run catches it (run catches KeyboardInterrupt
\* alone), so it leaves run() and ends the process
EmitFails ==
  /\ pc = "emit"
  /\ pc' = "crashed"
  /\ emit_failed' = TRUE
  /\ run_result' = "raised"
  /\ UNCHANGED <<cfg, disk, launches, agent, grads, locals, sinks, start_epoch,
                 trained, run_saves, epochs_done, iter_at_epoch, iter_at_run,
                 netD_at_run, netG_at_run, loss_records, cancel_pc, cancel_it,
                 emit_steps, load_outcome, loaded_from, proc_steps, epoch_ckpt,
                 fin_saves, loaded_partial, aux>>

\* the loader is exhausted: train_one_epoch() returns and train() calls
\* save_checkpoint() with its default arguments
EpochEnd ==
  /\ pc = "loop"
  /\ ~LoaderHasNext
  /\ epochs_done' = epochs_done + 1
  /\ saveRet' = "train"
  /\ is_best' = 0
  /\ pc' = "save"
  /\ UNCHANGED <<cfg, disk, launches, agent, grads, epoch, curr_it, y,
                 meter_count, emit_idx, sinks, start_epoch, trained, run_saves,
                 iter_at_epoch, iter_at_run, netD_at_run, netG_at_run,
                 loss_records, run_result, cancel_pc, cancel_it, emit_steps,
                 hist_proc, aux>>

\* ------------------------------------------------------------ save_checkpoint
\* faulty variant: a save that stores current_epoch itself
SavedEpoch_Same == current_epoch
\* the epoch field of a saved state
SavedEpoch == current_epoch + 1

\* the dict save_checkpoint builds
StateToSave == [kind |-> "ckpt", keys |-> NumKeys,
                epoch |-> SavedEpoch, iteration |-> current_iteration,
                G_state_dict |-> netG, G_optimizer |-> optimG,
                D_state_dict |-> netD, D_optimizer |-> optimD]

\* faulty variant: finalize() goes on to the data loader without closing
\* the summary writer
ReturnPc_SkipWriter == CASE saveRet = "train" -> "train"
                         [] saveRet = "finalize" -> "fin_loader"
                         [] OTHER -> "saved"
\* where control continues when save_checkpoint returns
ReturnPc == CASE saveRet = "train" -> "train"
              [] saveRet = "finalize" -> "fin_writer"
              [] OTHER -> "saved"

\* save_checkpoint returns to its caller; in train() the for loop then takes
\* the next value of its range
SaveReturns ==
  /\ pc' = ReturnPc
  /\ epoch' = IF saveRet = "train" THEN epoch + 1 ELSE epoch
  /\ run_saves' = IF saveRet = "train" THEN run_saves + 1 ELSE run_saves
  /\ epoch_ckpt' = IF saveRet = "train" THEN ckpt_file' ELSE epoch_ckpt
  /\ fin_saves' = IF saveRet = "finalize" THEN fin_saves + 1 ELSE fin_saves

\* run() has returned on a cancellation that arrived inside an epoch some of
\* whose steps had not completed
MidEpochCancel ==
  /\ run_result = "cancelled"
  /\ cancel_pc \in EpochPcs
  /\ cancel_it < num_iterations

\* torch.save(state, path) opens the checkpoint path itself for writing,
\* which empties the file that was there
SaveOpen ==
  /\ pc = "save"
  /\ ckpt_file' = Truncated
  /\ pc' = "save_write"
  /\ UNCHANGED <<cfg, best_file, launches, agent, grads, locals, sinks,
                 hist_run, hist_proc, aux>>

\* torch.save writes the state and closes the file; with is_best unset
\* save_checkpoint returns
SaveWrite ==
  /\ pc = "save_write"
  /\ ckpt_file' = StateToSave
  /\ ckpt_partial' = MidEpochCancel
  /\ IF is_best # 0
       THEN /\ pc' = "copy"
            /\ UNCHANGED <<epoch, run_saves, epoch_ckpt, fin_saves>>
       ELSE SaveReturns
  /\ UNCHANGED <<cfg, best_file, launches, agent, grads, curr_it, y,
                 meter_count, saveRet, is_best, emit_idx, sinks, start_epoch,
                 trained, epochs_done, iter_at_epoch, iter_at_run, netD_at_run,
                 netG_at_run, loss_records, run_result, cancel_pc, cancel_it,
                 emit_steps, load_outcome, loaded_from, proc_steps, emit_failed,
                 loaded_partial, noise, hist_step>>

\* shutil.copyfile opens 'model_best.pth.tar' for writing
CopyOpen ==
  /\ pc = "copy"
  /\ best_file' = Truncated
  /\ pc' = "copy_write"
  /\ UNCHANGED <<cfg, ckpt_file, launches, agent, grads, locals, sinks,
                 hist_run, hist_proc, aux>>

\* shutil.copyfile copies the checkpoint file and save_checkpoint returns
CopyWrite ==
  /\ pc = "copy_write"
  /\ best_file' = ckpt_file
  /\ SaveReturns
  /\ UNCHANGED <<cfg, ckpt_file, launches, agent, grads, curr_it, y,
                 meter_count, saveRet, is_best, emit_idx, sinks, start_epoch,
                 trained, epochs_done, iter_at_epoch, iter_at_run, netD_at_run,
                 netG_at_run, loss_records, run_result, cancel_pc, cancel_it,
                 emit_steps, load_outcome, loaded_from, proc_steps, emit_failed,
                 loaded_partial, aux>>

\* ------------------------------------------------------------- cancellation
\* the positions inside run()'s try block
RunPcs == {"train", "loop", "d_real", "d_fake", "d_step", "g_back", "g_step",
           "record", "inc", "emit", "save", "save_write"}

InRun == pc \in RunPcs /\ (pc \in {"save", "save_write"} => saveRet = "train")

\* the user interrupts: KeyboardInterrupt is raised at whatever statement the
\* control thread is executing inside try: self.train(); run() prints its
\* notice and returns
Cancel ==
  /\ InRun
  /\ pc' = "cancelled"
  /\ run_result' = "cancelled"
  /\ cancel_pc' = pc
  /\ cancel_it' = curr_it
  /\ UNCHANGED <<cfg, disk, launches, agent, grads, locals, sinks, start_epoch,
                 trained, run_saves, epochs_done, iter_at_epoch, iter_at_run,
                 netD_at_run, netG_at_run, loss_records, emit_steps, hist_proc,
                 aux>>

\* ------------------------------------------------------------------ finalize
\* the caller invokes finalize() once run() has returned: save_checkpoint()
Finalize ==
  /\ pc \in {"done", "cancelled", "saved"}
  /\ saveRet' = "finalize"
  /\ is_best' = 0
  /\ pc' = "save"
  /\ UNCHANGED <<cfg, disk, launches, agent, grads, epoch, curr_it, y,
                 meter_count, emit_idx, sinks, hist_run, hist_proc, aux>>

\* summary_writer.export_scalars_to_json(...); summary_writer.close()
FinalizeWriter ==
  /\ pc = "fin_writer"
  /\ writer_closed' = writer_closed + 1
  /\ pc' = "fin_loader"
  /\ UNCHANGED <<cfg, disk, launches, agent, grads, locals, records,
                 loader_finalized, hist_run, hist_proc, aux>>

\* dataloader.finalize()
FinalizeLoader ==
  /\ pc = "fin_loader"
  /\ loader_finalized' = loader_finalized + 1
  /\ pc' = "finalized"
  /\ UNCHANGED <<cfg, disk, launches, agent, grads, locals, records,
                 writer_closed, hist_run, hist_proc, aux>>

\* ------------------------------------------------------------------- caller
\* the process has ended (after finalize(), or by an uncaught exception) and
\* the program is launched again on the same checkpoint directory
Relaunch ==
  /\ pc \in {"finalized", "crashed"}
  /\ launches < MaxLaunches
  /\ launches' = launches + 1
  /\ pc' = "boot"
  /\ UNCHANGED <<cfg, disk, agent, grads, locals, sinks, hist_run, hist_proc,
                 aux>>

\* a caller that uses save_checkpoint directly, after run() has returned
CallerSave ==
  /\ pc \in {"done", "cancelled"}
  /\ \E b \in {0, 1} : is_best' = b
  /\ saveRet' = "caller"
  /\ pc' = "save"
  /\ UNCHANGED <<cfg, disk, launches, agent, grads, epoch, curr_it, y,
                 meter_count, emit_idx, sinks, hist_run, hist_proc, aux>>

\* ------------------------------------------------------------ specification
Init ==
  /\ max_epoch \in 1..MaxEpochCfg
  /\ num_iterations \in 1..MaxIterCfg
  /\ ckpt_file \in InitialFiles
  /\ best_file = NoFile
  /\ pc = "boot" /\ launches = 1
  /\ current_epoch = 0 /\ current_iteration = 0
  /\ netG = 0 /\ optimG = 0 /\ netD = 0 /\ optimD = 0
  /\ gradD = {} /\ gradG = {}
  /\ epoch = 0 /\ curr_it = 0 /\ y = real_label /\ meter_count = 0
  /\ saveRet = "train" /\ is_best = 0 /\ emit_idx = 0
  /\ records = 0 /\ writer_closed = 0 /\ loader_finalized = 0
  /\ start_epoch = 0 /\ trained = <<>> /\ run_saves = 0 /\ epochs_done = 0
  /\ iter_at_epoch = 0 /\ iter_at_run = 0 /\ netD_at_run = 0 /\ netG_at_run = 0
  /\ loss_records = 0 /\ run_result = "none"
  /\ cancel_pc = "none" /\ cancel_it = 0
  /\ load_outcome = "none" /\ loaded_from = NoFile /\ proc_steps = 0
  /\ emit_failed = FALSE /\ epoch_ckpt = NoFile
  /\ fixed_noise = 1 /\ fake_noise = 1 /\ gen_image = NoImage
  /\ events = <<>> /\ targets = <<>> /\ d_consumed = {}
  /\ emit_steps = 0 /\ fin_saves = 0
  /\ loaded_partial = FALSE /\ ckpt_partial = FALSE

Next ==
  \/ Construct \/ Run \/ TrainNextEpoch \/ TrainReturn
  \/ FetchBatch \/ DiscriminatorReal \/ DiscriminatorFake \/ DiscriminatorStep
  \/ GeneratorBackward \/ GeneratorStep \/ RecordLosses \/ IncrementIteration
  \/ EmitRecord \/ EmitFails \/ EpochEnd
  \/ SaveOpen \/ SaveWrite
  \/ Cancel \/ Finalize \/ FinalizeWriter \/ FinalizeLoader \/ Relaunch

Spec == Init /\ [][Next]_vars

\* the same program with a caller that also saves with is_best
NextAPI == Next \/ CallerSave \/ CopyOpen \/ CopyWrite

SpecAPI == Init /\ [][NextAPI]_vars

\* ------------------------------------------------------------------- claims
\* C1: run() trains the epochs start_epoch, start_epoch + 1, ... below
\* max_epoch in increasing order, start_epoch being current_epoch at the
\* call; current_epoch is the epoch being trained; a run that returns by
\* exhausting its range has trained all of them; with start_epoch >=
\* max_epoch run() does no step and writes no checkpoint.
C1_EpochsInRange ==
  /\ \A i \in 1..Len(trained) :
       trained[i] = start_epoch + i - 1 /\ trained[i] < max_epoch
  /\ pc \in EpochPcs =>
       Len(trained) >= 1 /\ current_epoch = trained[Len(trained)]
  /\ pc = "done" =>
       Len(trained) = (IF max_epoch > start_epoch THEN max_epoch - start_epoch ELSE 0)
  /\ (pc \in {"train", "done", "cancelled"} /\ start_epoch >= max_epoch) =>
       /\ trained = <<>> /\ loss_records = 0 /\ run_saves = 0
       /\ current_iteration = iter_at_run
       /\ ckpt_file = loaded_from

\* a resumed run that trained the remaining epoch and returned
C1_Witness ==
  pc = "done" /\ load_outcome = "loaded" /\ start_epoch = 1 /\ trained = <<1>>

\* C2: current_iteration grows by exactly 1 when a step completes, is
\* changed by no other operation of a constructed agent, never decreases,
\* and a constructor that loads a checkpoint with iteration I sets it to I.
C2_IterationCounts ==
  [][ /\ (pc = "inc" /\ pc' # "cancelled") =>
           current_iteration' = current_iteration + 1
      /\ (pc = "boot" /\ IsComplete(ckpt_file)) =>
           current_iteration' = ckpt_file.iteration
      /\ pc \notin {"inc", "boot"} => current_iteration' = current_iteration
      /\ pc # "boot" => current_iteration' >= current_iteration ]_vars

\* a resumed agent whose count has gone on from the loaded value
C2_Witness ==
  /\ load_outcome = "loaded" /\ loaded_from.iteration > 0
  /\ current_iteration > loaded_from.iteration

\* C3: a process that loads a checkpoint and saves it again without a
\* training step in between leaves the file as it was loaded.
C3_LoadSaveIdempotent ==
  (/\ load_outcome = "loaded" /\ proc_steps = 0
   /\ pc \in {"fin_writer", "fin_loader", "finalized"})
    => ckpt_file = loaded_from

\* C4: after a cancellation in the middle of an epoch (k completed steps,
\* 0 < k < num_iterations) the checkpoint file keeps the content of the last
\* completed epoch, through run() returning and finalize().
C4_NoPartialEpochCheckpoint ==
  (/\ run_result = "cancelled" /\ cancel_pc \in EpochPcs
   /\ 0 < cancel_it /\ cancel_it < num_iterations
   /\ pc \in {"cancelled", "fin_writer", "fin_loader", "finalized"})
    => ckpt_file = epoch_ckpt

\* the scenario of C5: a fresh start with max_epoch = 1 and num_iterations = 2
\* whose run() has returned by exhausting its range
C5_Scenario ==
  /\ max_epoch = 1 /\ num_iterations = 2
  /\ load_outcome = "fresh" /\ pc = "done"

\* C5 (as the code has it): at the end of the scenario 2 loss records were
\* produced, current_iteration = 2, current_epoch = 0, and the one checkpoint
\* file holds epoch = 1.
C5_ScenarioEndState ==
  C5_Scenario =>
    /\ loss_records = 2 /\ current_iteration = 2 /\ current_epoch = 0
    /\ IsComplete(ckpt_file) /\ ckpt_file.epoch = 1 /\ ckpt_file.iteration = 2
    /\ best_file = NoFile

\* C5 as stated: current_epoch = 1 and the file's epoch field = 2
C5_AsClaimed ==
  C5_Scenario =>
    /\ loss_records = 2 /\ current_iteration = 2 /\ current_epoch = 1
    /\ IsComplete(ckpt_file) /\ ckpt_file.epoch = 2
    /\ best_file = NoFile

C5_Witness == C5_Scenario

\* C6: an epoch ends after exactly num_iterations steps, over which
\* current_iteration grows by num_iterations, and run() completes exactly
\* one save per completed epoch, none of them between two steps of an epoch.
C6_EpochBounded ==
  /\ pc \in EpochPcs =>
       /\ curr_it <= num_iterations
       /\ pc \in StepPcs => curr_it < num_iterations
       /\ current_iteration = iter_at_epoch + curr_it + (IF pc = "emit" THEN 1 ELSE 0)
       /\ epochs_done = Len(trained) - 1
       /\ run_saves = epochs_done
  /\ (pc \in {"save", "save_write"} /\ saveRet = "train") =>
       /\ curr_it = num_iterations
       /\ current_iteration = iter_at_epoch + num_iterations
       /\ epochs_done = Len(trained)
       /\ run_saves = epochs_done - 1
  /\ pc \in {"train", "done"} =>
       /\ epochs_done = Len(trained)
       /\ run_saves = epochs_done

\* the save that follows the second completed epoch of a run
C6_Witness ==
  pc = "save_write" /\ saveRet = "train" /\ num_iterations = 2 /\ epochs_done = 2

\* C7: whatever is at the checkpoint path that is no complete checkpoint,
\* the constructor returns and the agent holds the fresh default state.
C7_LoadNeverBlocks ==
  (load_outcome # "none" /\ ~IsComplete(loaded_from)) =>
    /\ load_outcome = "fresh"
    /\ pc = "ready" =>
         /\ current_epoch = 0 /\ current_iteration = 0
         /\ netG = 0 /\ optimG = 0 /\ netD = 0 /\ optimD = 0

\* C8: whenever the content of the checkpoint file, or of the "best" alias,
\* changes, the new content is a complete checkpoint.
C8_SaveAtomic ==
  [][ /\ ckpt_file' # ckpt_file => IsComplete(ckpt_file')
      /\ best_file' # best_file => IsComplete(best_file') ]_vars

\* C9: when run() has returned on a cancellation, every step that was
\* started has completed (as many discriminator updates as generator updates
\* as increments of current_iteration), and finalize() has not been invoked.
C9_CancelBetweenSteps ==
  pc = "cancelled" =>
    /\ netD - netD_at_run = netG - netG_at_run
    /\ netG - netG_at_run = current_iteration - iter_at_run
    /\ writer_closed = 0 /\ loader_finalized = 0

\* C10: a telemetry emission that fails does not end the run.
C10_TelemetryFailureSwallowed ==
  emit_failed => (pc # "crashed" /\ run_result # "raised")

\* C11: when finalize() has returned, the checkpoint file holds the agent's
\* current state, and finalize() has saved, closed the summary writer and
\* finalized the data loader once each; when run() has returned on a
\* cancellation none of the three has been done by it.
C11_FinalizeEffects ==
  /\ pc = "finalized" =>
       /\ ckpt_file = StateToSave
       /\ fin_saves = 1 /\ writer_closed = 1 /\ loader_finalized = 1
  /\ pc = "cancelled" =>
       /\ fin_saves = 0 /\ writer_closed = 0 /\ loader_finalized = 0
       /\ run_saves <= epochs_done

\* finalize() has returned after a run that was cancelled inside a step
C11_Witness ==
  pc = "finalized" /\ run_result = "cancelled" /\ cancel_pc \in StepPcs

\* C12: after construction no operation changes fixed_noise, and every
\* generated image handed to the summary writer is netG(fixed_noise).
C12_FixedNoiseOnce ==
  [][ pc # "boot" =>
        /\ fixed_noise' = fixed_noise
        /\ gen_image' # gen_image => gen_image'[2] = fixed_noise ]_vars

\* a sample emitted in a later epoch, in a step whose own noise differs
C12_Witness ==
  /\ gen_image # NoImage /\ gen_image[2] = fixed_noise
  /\ fake_noise # fixed_noise /\ current_epoch >= 1 /\ pc = "loop"

\* C13 (for N = 100, the interval of the code): among the first s steps of a
\* run, between floor(s / N) and ceil(s / N) steps have emitted telemetry.
C13_EmitEveryN ==
  pc \in EpochPcs =>
    LET s == current_iteration - iter_at_run IN
      /\ emit_steps * LogInterval <= s + LogInterval - 1
      /\ emit_steps * LogInterval >= s - LogInterval + 1

\* C14 (as the code has it): the accumulators are created at the head of
\* every epoch; their observation count is the number of steps recorded in
\* the current epoch.
C14_MeterPerEpoch ==
  pc \in EpochPcs =>
    meter_count = curr_it + (IF pc \in {"inc", "emit"} THEN 1 ELSE 0)

\* C14 as stated: the count is the number of steps recorded in the run
C14_AsClaimed ==
  pc \in EpochPcs => meter_count = loss_records

\* the first recorded step of a run's second epoch
C14_Witness ==
  pc = "inc" /\ Len(trained) = 2 /\ meter_count = 1 /\ loss_records > 1

\* the passes and optimizer steps of one training step, in program order
StepOrder == <<"real_backward", "gen_forward", "fake_backward", "d_step",
               "gen_backward", "g_step">>

\* the position of event e in the current step
Pos(e) == CHOOSE i \in 1..Len(events) : events[i] = e

\* C15 (as the code has it): in every step the real-loss backward pass is
\* followed by the generator forward pass, the fake-loss backward pass, the
\* discriminator optimizer step, the generator-loss backward pass and the
\* generator optimizer step, in this order.
C15_StepOrder ==
  /\ pc \in StepPcs => events = SubSeq(StepOrder, 1, Len(events))
  /\ pc \in {"record", "inc", "emit"} => events = StepOrder

\* C15 as stated: the generator forward pass follows the discriminator
\* optimizer step
C15_AsClaimed ==
  pc \in {"record", "inc", "emit"} =>
    /\ Pos("real_backward") < Pos("fake_backward")
    /\ Pos("fake_backward") < Pos("d_step")
    /\ Pos("d_step") < Pos("gen_forward")
    /\ Pos("gen_forward") < Pos("g_step")

\* a completed step that is not the first of its run
C15_Witness ==
  pc = "record" /\ events = StepOrder /\ loss_records >= 1

\* C16: each step applies the discriminator optimizer once, to a gradient
\* buffer that holds that step's real-loss and fake-loss gradients and
\* nothing else.
C16_DiscriminatorGradient ==
  /\ pc = "d_step" => gradD = {"real", "fake"}
  /\ pc \in {"g_back", "g_step", "record", "inc", "emit"} =>
       d_consumed = {"real", "fake"}
  /\ pc \in EpochPcs =>
       netD - netD_at_run =
         loss_records + (IF pc \in {"g_back", "g_step", "record"} THEN 1 ELSE 0)

\* a discriminator step taken after an earlier step's generator backward
\* pass had accumulated into the discriminator's buffer
C16_Witness ==
  pc = "g_back" /\ loss_records >= 1 /\ d_consumed = {"real", "fake"}

\* C17: netG changes in the generator optimizer step alone (and by
\* construction); the discriminator sub-steps leave netG and its gradient
\* buffer as they were; the generator optimizer step leaves netD as it was.
C17_GeneratorFrame ==
  [][ /\ netG' # netG => pc \in {"g_step", "boot"}
      /\ pc \in {"d_real", "d_fake", "d_step"} =>
           netG' = netG /\ gradG' = gradG
      /\ pc = "g_step" => netD' = netD ]_vars

\* the discriminator has been updated in a step that follows a generator
\* backward pass
C17_Witness ==
  pc = "g_back" /\ gradG = {"gen"} /\ netD > netD_at_run

\* C18: the losses of a step are computed against real_label, fake_label
\* and real_label, in this order.
C18_LabelConvention ==
  /\ pc \in StepPcs =>
       targets = SubSeq(<<real_label, fake_label, real_label>>, 1, Len(targets))
  /\ pc = "d_real" => Len(targets) = 0
  /\ pc = "d_fake" => Len(targets) = 1
  /\ pc \in {"d_step", "g_back"} => Len(targets) = 2
  /\ pc \in {"g_step", "record", "inc", "emit"} => Len(targets) = 3

\* the generator loss of a step of a run's second epoch
C18_Witness ==
  pc = "g_step" /\ Len(trained) = 2 /\ Len(targets) = 3

\* C19: a checkpoint that is written holds epoch = current_epoch + 1; an
\* agent constructed from it has current_epoch = that field, and the first
\* epoch its run() trains is that one, no trained epoch being below it, also
\* when the checkpoint was written by finalize() after a cancellation inside
\* an epoch.
C19_EpochAccounting ==
  [][ /\ (ckpt_file' # ckpt_file /\ IsComplete(ckpt_file')) =>
           ckpt_file'.epoch = current_epoch + 1
      /\ (pc = "boot" /\ IsComplete(ckpt_file)) =>
           current_epoch' = ckpt_file.epoch
      /\ (pc = "train" /\ pc' = "loop" /\ load_outcome = "loaded") =>
           /\ current_epoch' >= loaded_from.epoch
           /\ trained = <<>> => current_epoch' = loaded_from.epoch ]_vars

\* a run resumed from the checkpoint finalize() wrote after a cancellation
\* inside an epoch, training the epoch after the interrupted one
C19_Witness ==
  /\ load_outcome = "loaded" /\ loaded_partial
  /\ pc = "loop" /\ trained = <<loaded_from.epoch>>

====
